---- MODULE Spec2Model ----
(***************************************************************************)
(* A model of bot.py: the handling of one inbound media message by         *)
(* handle_document, process_mp3 and process_mp4.                           *)
(*                                                                         *)
(* State: the handler's position (pc), the local path variables of the     *)
(* handlers, the temporary files that exist on disk with their attributes, *)
(* and a log of everything the handler did that is visible outside it:     *)
(* fetches, toolchain invocations, text sends and media sends, in order.   *)
(*                                                                         *)
(* Every step that can raise in the source (get_file, download_to_drive,   *)
(* the probe, moviepy, the ffmpeg subprocess, reply_voice, reply_video,    *)
(* reply_video_note) is a step with both outcomes here.  reply_text and    *)
(* the tempfile/unlink calls are taken to return.                          *)
(***************************************************************************)
EXTENDS Integers, Sequences, FiniteSets, TLC

VARIABLES
    pc,             \* position of the handler
    hasMessage,     \* update.message is set
    hasDocument,    \* one of message.document/audio/video/voice is set
    file_name,      \* document.file_name (a sequence of characters, or NoneVal)
    mime_type,      \* document.mime_type (a sequence of characters, or NoneVal)
    ffmpegInPath,   \* environment: shutil.which('ffmpeg') finds a binary
    files,          \* temporary files that exist on disk
    meta,           \* attributes of each temporary file: size, duration, w, h
    temp_mp3_path,  \* process_mp3's local
    temp_ogg_path,  \* process_mp3's local
    temp_mp4_path,  \* process_mp4's local
    duration,       \* process_mp4's local, set by the probe
    width,          \* process_mp4's local, set by the probe
    height,         \* process_mp4's local, set by the probe
    attempt,        \* index into attempts of the tier-4 loop
    sizeChecked,    \* the file whose size the step just before compared to the cap and accepted
    outcome,        \* "running", "returned" or "raised" (an exception left the handler)
    log,            \* everything the handler did, in order
    req,            \* which request the variables above belong to (0: the only one)
    parked          \* the locals of a second request whose coroutine is suspended

vars == <<pc, hasMessage, hasDocument, file_name, mime_type, ffmpegInPath, files, meta,
          temp_mp3_path, temp_ogg_path, temp_mp4_path, duration, width, height,
          attempt, sizeChecked, outcome, log, req, parked>>

----------------------------------------------------------------------------
(* Program constants *)

SizeCap == 20 * 1024 * 1024        \* os.path.getsize(...) <= 20 * 1024 * 1024
MaxDuration == 60                  \* duration > 60, subclip(0, 60), '-t', '60'
TARGET_SIDE == 360                 \* the local TARGET_SIDE of process_mp4
Tier3Scale == 640                  \* scale='min(640,iw)':'min(640,ih)'
Tier3Crf == 28                     \* '-crf', '28'

\* a variant of attempts: the last two entries in the other order
attemptsUnordered == << [crf |-> 30, scale |-> 480],
                        [crf |-> 35, scale |-> 320],
                        [crf |-> 32, scale |-> 360] >>

\* attempts = [ {'crf':30,'scale':480}, {'crf':32,'scale':360}, {'crf':35,'scale':320} ]
attempts == << [crf |-> 30, scale |-> 480],
               [crf |-> 32, scale |-> 360],
               [crf |-> 35, scale |-> 320] >>

----------------------------------------------------------------------------
(* Inputs of the model *)

NoneVal == << "<None>" >>

Mp3Suffix == << ".", "m", "p", "3" >>
Mp4Suffix == << ".", "m", "p", "4" >>
AudioMpeg == << "a", "u", "d", "i", "o", "/", "m", "p", "e", "g" >>
VideoMp4 == << "v", "i", "d", "e", "o", "/", "m", "p", "4" >>

FileNames == { NoneVal,
               << "a" >> \o Mp3Suffix,
               << "A", ".", "M", "P", "3" >>,
               << "a" >> \o Mp4Suffix,
               << "a", ".", "t", "x", "t" >> }

MimeTypes == { NoneVal,
               AudioMpeg,
               VideoMp4,
               << "t", "e", "x", "t" >> }

MiB == 1024 * 1024

\* how far past each limit the inputs of the model reach
Slack == 1

\* With two requests (req is 1 or 2) each request draws from fewer values: a small or
\* an oversized file, one duration, one frame size.

\* byte sizes of a downloaded file: well under the cap, the cap, and past it
Sizes ==
    IF req = 0 THEN { 5 * MiB } \cup (SizeCap .. SizeCap + Slack)
    ELSE { 5 * MiB, SizeCap + 1 }

\* byte sizes of a transform's output
OutSizes ==
    IF req = 0 THEN { 5 * MiB, SizeCap, SizeCap + 1 }
    ELSE { 5 * MiB, SizeCap + 1 }

\* durations in seconds: well under the limit, the limit, and past it
Durations ==
    IF req = 0 THEN { 30 } \cup (MaxDuration .. MaxDuration + Slack)
    ELSE { 30 }

\* frame sizes <<w, h>>: aspect 1, 16:9, an odd portrait frame, and the frames of height
\* 400 at and past the aspects 0.9 (360 wide) and 1.1 (440 wide)
Dims ==
    IF req = 0
    THEN { <<640, 640>>, <<1920, 1080>>, <<481, 853>> }
         \cup { <<360 - 2 * k, 400>> : k \in 0..Slack }
         \cup { <<440 + 2 * k, 400>> : k \in 0..Slack }
    ELSE { <<640, 640>> }

TempFiles == { "temp_mp3", "temp_ogg", "temp_mp4", "tmp_out", "temp_ff",
               "tmp_try1", "tmp_try2", "tmp_try3" }

NoAttrs == [size |-> 0, dur |-> 0, w |-> 0, h |-> 0]

----------------------------------------------------------------------------
(* The log *)

Event(ev, kind, asset, ok, checked, a) ==
    [ev |-> ev, kind |-> kind, asset |-> asset, ok |-> ok, checked |-> checked,
     size |-> a.size, dur |-> a.dur, w |-> a.w, h |-> a.h]

Fetch(kind, ok) == Event("fetch", kind, "-", ok, FALSE, NoAttrs)
Text(kind) == Event("text", kind, "-", TRUE, FALSE, NoAttrs)
Transform(kind, ok) == Event("transform", kind, "-", ok, FALSE, NoAttrs)

\* a media send (reply_voice, reply_video, reply_video_note) of the file `asset`
Send(kind, asset, ok) ==
    Event("send", kind, asset, ok, sizeChecked = asset, meta[asset])

Indices(ev) == { i \in 1..Len(log) : log[i].ev = ev }
SendIdx == Indices("send")
TransformIdx == Indices("transform")
TextIdx == Indices("text")
FetchIdx == Indices("fetch")
Delivered == { i \in SendIdx : log[i].ok }

----------------------------------------------------------------------------
(* Pure helpers *)

Max(a, b) == IF a >= b THEN a ELSE b
Min(a, b) == IF a <= b THEN a ELSE b

\* str.lower() on the characters the inputs use
LowerChar(c) ==
    CASE c = "A" -> "a"
      [] c = "M" -> "m"
      [] c = "P" -> "p"
      [] OTHER -> c

Lower(s) == [i \in 1..Len(s) |-> LowerChar(s[i])]

\* (x or '')
OrEmpty(s) == IF s = NoneVal THEN << >> ELSE s

EndsWith(s, suffix) ==
    /\ Len(s) >= Len(suffix)
    /\ SubSeq(s, Len(s) - Len(suffix) + 1, Len(s)) = suffix

\* sub in s
Contains(sub, s) ==
    \E i \in 1..(Len(s) - Len(sub) + 1) : SubSeq(s, i, i + Len(sub) - 1) = sub

\* a variant of Classify: whatever is not taken for audio is handled as video
ClassifyDefaultVideo(name, mime) ==
    LET file_name_lower == Lower(OrEmpty(name))
        mt == OrEmpty(mime)
    IN  IF EndsWith(file_name_lower, Mp3Suffix) \/ Contains(AudioMpeg, mt) THEN "mp3"
        ELSE "mp4"

\* the dispatch of handle_document: "mp3", "mp4" or "reject"
Classify(name, mime) ==
    LET file_name_lower == Lower(OrEmpty(name))
        mt == OrEmpty(mime)
    IN  IF EndsWith(file_name_lower, Mp3Suffix) \/ Contains(AudioMpeg, mt) THEN "mp3"
        ELSE IF EndsWith(file_name_lower, Mp4Suffix) \/ Contains(VideoMp4, mt) THEN "mp4"
        ELSE "reject"


\* trim_needed = duration > 60
TrimNeeded(d) == d > MaxDuration

\* a variant of IsSquare: the two bounds exclusive
IsSquareStrict(w, h) == 9 * h < 10 * w /\ 10 * w < 11 * h

\* is_square = 0.9 <= width / height <= 1.1, on integers: 9h <= 10w and 10w <= 11h.
\* width / height is a correctly rounded double: a quotient of exactly 0.9 or 1.1 is the
\* double the literal denotes, and no quotient of frame sizes falls within an ulp of one.
IsSquare(w, h) == 9 * h <= 10 * w /\ 10 * w <= 11 * h

\* a variant of SizeOk: the comparison off by one byte
SizeOkOffByOne(sz) == sz <= SizeCap + 1

\* os.path.getsize(path) <= 20 * 1024 * 1024
SizeOk(sz) == sz <= SizeCap

\* if is_square and not trim_needed and os.path.getsize(temp_mp4_path) <= 20 * 1024 * 1024
DirectlyAcceptable(d, w, h, sz) == IsSquare(w, h) /\ ~TrimNeeded(d) /\ SizeOk(sz)

\* tier 2: subclip(0, 60) if trim_needed; composite on a TARGET_SIDE x TARGET_SIDE ColorClip
Tier2Duration(d) == IF TrimNeeded(d) THEN MaxDuration ELSE d
\* video.fx(resize, width=TARGET_SIDE) if video.w >= video.h, else height=TARGET_SIDE
Tier2Resized(w, h) ==
    IF w >= h THEN <<TARGET_SIDE, (h * TARGET_SIDE) \div w>>
    ELSE <<(w * TARGET_SIDE) \div h, TARGET_SIDE>>

\* CompositeVideoClip([bg_clip, video_resized]) has the size of its first clip, bg_clip,
\* a ColorClip of size (TARGET_SIDE, TARGET_SIDE), unless the resized clip does not fit
Tier2Dims(w, h) ==
    LET r == Tier2Resized(w, h)
    IN  <<Max(TARGET_SIDE, r[1]), Max(TARGET_SIDE, r[2])>>

\* a variant of FfmpegDuration: the '-t', '60' arguments left out
FfmpegDurationNoTrim(d) == d

\* ffmpeg '-t', '60'
FfmpegDuration(d) == Min(d, MaxDuration)

\* pad=ceil(max(iw,ih)/2)*2:ceil(max(iw,ih)/2)*2
PadSide(w, h) == ((Max(w, h) + 1) \div 2) * 2

\* scale=bw:bh:force_original_aspect_ratio=decrease: the largest frame of the input's
\* aspect that fits in bw x bh
FitDecrease(iw, ih, bw, bh) ==
    IF iw * bh >= ih * bw THEN <<bw, (bw * ih) \div iw>>
    ELSE <<(bh * iw) \div ih, bh>>

\* tier 3: pad to an even square, then scale='min(640,iw)':'min(640,ih)', aspect kept
Tier3Dims(w, h) ==
    LET side == PadSide(w, h)
    IN  FitDecrease(side, side, Min(Tier3Scale, side), Min(Tier3Scale, side))

\* the nearest multiple of 2, as ffmpeg's scale=W:-2 rounds the derived dimension
RoundEven(x) == ((x + 1) \div 2) * 2

\* tier 4: pad to an even square, then scale=<scale>:-2
Tier4Dims(w, h, scale) ==
    LET side == PadSide(w, h)
    IN  <<scale, RoundEven((scale * side) \div side)>>

TryFile(a) == CASE a = 1 -> "tmp_try1" [] a = 2 -> "tmp_try2" [] OTHER -> "tmp_try3"
TryTier(a) == CASE a = 1 -> "t4_1" [] a = 2 -> "t4_2" [] OTHER -> "t4_3"

\* for a in attempts: the next iteration, or the code after the loop
AfterAttempt(a) == IF a < Len(attempts) THEN "t4_temp" ELSE "exhausted_reply_text"

----------------------------------------------------------------------------
(* Initial state: one inbound update, nothing done yet *)

\* the locals of a request, as the record a suspended coroutine keeps them in; `own` is
\* the set of its temporary files that were on disk when it was suspended
Context(p, hm, hd, fn, mt, m, p3, pogg, p4, d, w, h, a, sc, o, l, r, fs) ==
    [pc |-> p, hasMessage |-> hm, hasDocument |-> hd, file_name |-> fn, mime_type |-> mt,
     meta |-> m, temp_mp3_path |-> p3, temp_ogg_path |-> pogg, temp_mp4_path |-> p4,
     duration |-> d, width |-> w, height |-> h, attempt |-> a, sizeChecked |-> sc,
     outcome |-> o, log |-> l, req |-> r, own |-> fs]

\* the locals of a request whose update has been delivered and whose handler has not run
Arrived(r, hm, hd, fn, mt) ==
    Context("handle_document", hm, hd, fn, mt, [f \in TempFiles |-> NoAttrs],
            "None", "None", "None", 0, 0, 0, 0, "None", "running", << >>, r, {})

\* no second request
Absent ==
    Context("absent", FALSE, FALSE, NoneVal, NoneVal, [f \in TempFiles |-> NoAttrs],
            "None", "None", "None", 0, 0, 0, 0, "None", "running", << >>, 0, {})

Init ==
    /\ req = 0
    /\ parked = Absent
    /\ pc = "handle_document"
    /\ hasMessage \in BOOLEAN
    /\ hasDocument \in BOOLEAN
    /\ file_name \in FileNames
    /\ mime_type \in MimeTypes
    /\ ffmpegInPath \in BOOLEAN
    \* without a message, or without an attachment, there is no name or mime type
    /\ (~hasMessage => ~hasDocument)
    /\ (~hasDocument => file_name = NoneVal /\ mime_type = NoneVal)
    /\ files = {}
    /\ meta = [f \in TempFiles |-> NoAttrs]
    /\ temp_mp3_path = "None"
    /\ temp_ogg_path = "None"
    /\ temp_mp4_path = "None"
    /\ duration = 0
    /\ width = 0
    /\ height = 0
    /\ attempt = 0
    /\ sizeChecked = "None"
    /\ outcome = "running"
    /\ log = << >>

\* what every step leaves alone
Env == <<hasMessage, hasDocument, file_name, mime_type, ffmpegInPath, req, parked>>
Probed == <<duration, width, height>>

----------------------------------------------------------------------------
(* handle_document *)

HandleDocument ==
    /\ pc = "handle_document"
    /\ IF ~hasMessage
       THEN /\ pc' = "done"
            /\ outcome' = "returned"
            /\ log' = log
       ELSE IF ~hasDocument
       THEN /\ pc' = "done"
            /\ outcome' = "returned"
            /\ log' = Append(log, Text("need_media"))
       ELSE LET to == Classify(file_name, mime_type)
            IN  IF to = "mp3"
                THEN pc' = "mp3_get_file" /\ outcome' = outcome /\ log' = log
                ELSE IF to = "mp4"
                THEN pc' = "mp4_get_file" /\ outcome' = outcome /\ log' = log
                ELSE /\ pc' = "done"
                     /\ outcome' = "returned"
                     /\ log' = Append(log, Text("unsupported"))
    /\ sizeChecked' = "None"
    /\ UNCHANGED <<Env, files, meta, temp_mp3_path, temp_ogg_path, temp_mp4_path,
                   Probed, attempt>>

----------------------------------------------------------------------------
(* process_mp3 *)

\* file = await document.get_file()
Mp3GetFile ==
    /\ pc = "mp3_get_file"
    /\ \E ok \in BOOLEAN :
        /\ log' = Append(log, Fetch("get_file", ok))
        /\ pc' = IF ok THEN "mp3_download" ELSE "mp3_except"
    /\ sizeChecked' = "None"
    /\ UNCHANGED <<Env, files, meta, temp_mp3_path, temp_ogg_path, temp_mp4_path,
                   Probed, attempt, outcome>>

\* with NamedTemporaryFile(suffix='.mp3', delete=False): download_to_drive; temp_mp3_path = name
\* The file exists from the `with` on; the path is bound only after the download.
Mp3Download ==
    /\ pc = "mp3_download"
    /\ \E ok \in BOOLEAN, sz \in Sizes, d \in Durations :
        /\ log' = Append(log, Fetch("download", ok))
        /\ files' = files \cup {"temp_mp3"}
        /\ meta' = [meta EXCEPT !["temp_mp3"] =
                        IF ok THEN [size |-> sz, dur |-> d, w |-> 0, h |-> 0] ELSE NoAttrs]
        /\ temp_mp3_path' = IF ok THEN "temp_mp3" ELSE temp_mp3_path
        /\ pc' = IF ok THEN "mp3_temp_ogg" ELSE "mp3_except"
    /\ sizeChecked' = "None"
    /\ UNCHANGED <<Env, temp_ogg_path, temp_mp4_path, Probed, attempt, outcome>>

\* with NamedTemporaryFile(suffix='.ogg', delete=False) as temp_ogg: temp_ogg_path = temp_ogg.name
Mp3TempOgg ==
    /\ pc = "mp3_temp_ogg"
    /\ files' = files \cup {"temp_ogg"}
    /\ temp_ogg_path' = "temp_ogg"
    /\ pc' = "mp3_transcode"
    /\ sizeChecked' = "None"
    /\ UNCHANGED <<Env, meta, temp_mp3_path, temp_mp4_path, Probed, attempt, outcome, log>>

\* AudioFileClip(temp_mp3_path).write_audiofile(temp_ogg_path, codec='libopus', ...)
Mp3Transcode ==
    /\ pc = "mp3_transcode"
    /\ \E ok \in BOOLEAN, sz \in OutSizes :
        /\ log' = Append(log, Transform("ogg", ok))
        /\ meta' = [meta EXCEPT !["temp_ogg"] =
                        IF ok THEN [size |-> sz, dur |-> meta["temp_mp3"].dur, w |-> 0, h |-> 0]
                        ELSE NoAttrs]
        /\ pc' = IF ok THEN "mp3_reply_voice" ELSE "mp3_except"
    /\ sizeChecked' = "None"
    /\ UNCHANGED <<Env, files, temp_mp3_path, temp_ogg_path, temp_mp4_path, Probed,
                   attempt, outcome>>

\* await update.message.reply_voice(voice_file)
Mp3ReplyVoice ==
    /\ pc = "mp3_reply_voice"
    /\ \E ok \in BOOLEAN :
        /\ log' = Append(log, Send("voice", temp_ogg_path, ok))
        /\ pc' = IF ok THEN "mp3_finally" ELSE "mp3_except"
    /\ sizeChecked' = "None"
    /\ UNCHANGED <<Env, files, meta, temp_mp3_path, temp_ogg_path, temp_mp4_path, Probed,
                   attempt, outcome>>

\* except Exception: reply_text("Error processing the MP3 file. Please try again.")
Mp3Except ==
    /\ pc = "mp3_except"
    /\ log' = Append(log, Text("mp3_error"))
    /\ pc' = "mp3_finally"
    /\ sizeChecked' = "None"
    /\ UNCHANGED <<Env, files, meta, temp_mp3_path, temp_ogg_path, temp_mp4_path, Probed,
                   attempt, outcome>>

\* a variant of Mp3Finally: only the downloaded .mp3 is unlinked
Mp3FinallyKeepsOgg ==
    /\ pc = "mp3_finally"
    /\ files' = files \ (IF temp_mp3_path # "None" THEN {temp_mp3_path} ELSE {})
    /\ pc' = "done"
    /\ outcome' = "returned"
    /\ sizeChecked' = "None"
    /\ UNCHANGED <<Env, meta, temp_mp3_path, temp_ogg_path, temp_mp4_path, Probed,
                   attempt, log>>

\* finally: unlink temp_mp3_path and temp_ogg_path, each if bound and existing
Mp3Finally ==
    /\ pc = "mp3_finally"
    /\ files' = (files \ (IF temp_mp3_path # "None" THEN {temp_mp3_path} ELSE {}))
                      \ (IF temp_ogg_path # "None" THEN {temp_ogg_path} ELSE {})
    /\ pc' = "done"
    /\ outcome' = "returned"
    /\ sizeChecked' = "None"
    /\ UNCHANGED <<Env, meta, temp_mp3_path, temp_ogg_path, temp_mp4_path, Probed,
                   attempt, log>>

----------------------------------------------------------------------------
(* process_mp4 *)

Mp3Locals == <<temp_mp3_path, temp_ogg_path>>

\* file = await document.get_file(); an exception leaves through the finally
Mp4GetFile ==
    /\ pc = "mp4_get_file"
    /\ \E ok \in BOOLEAN :
        /\ log' = Append(log, Fetch("get_file", ok))
        /\ pc' = IF ok THEN "mp4_download" ELSE "mp4_finally"
        /\ outcome' = IF ok THEN outcome ELSE "raised"
    /\ sizeChecked' = "None"
    /\ UNCHANGED <<Env, files, meta, Mp3Locals, temp_mp4_path, Probed, attempt>>

\* with NamedTemporaryFile(suffix='.mp4', delete=False): download_to_drive; temp_mp4_path = name
\* The file exists from the `with` on; the path is bound only after the download.
Mp4Download ==
    /\ pc = "mp4_download"
    /\ \E ok \in BOOLEAN, sz \in Sizes, d \in Durations, wh \in Dims :
        /\ log' = Append(log, Fetch("download", ok))
        /\ files' = files \cup {"temp_mp4"}
        /\ meta' = [meta EXCEPT !["temp_mp4"] =
                        IF ok THEN [size |-> sz, dur |-> d, w |-> wh[1], h |-> wh[2]]
                        ELSE NoAttrs]
        /\ temp_mp4_path' = IF ok THEN "temp_mp4" ELSE temp_mp4_path
        /\ pc' = IF ok THEN "mp4_probe" ELSE "mp4_finally"
        /\ outcome' = IF ok THEN outcome ELSE "raised"
    /\ sizeChecked' = "None"
    /\ UNCHANGED <<Env, Mp3Locals, Probed, attempt>>

\* video_clip = VideoFileClip(temp_mp4_path); duration, size; on an exception the
\* warning text, then the original as a regular video
Mp4Probe ==
    /\ pc = "mp4_probe"
    /\ \/ /\ duration' = meta[temp_mp4_path].dur
          /\ width' = meta[temp_mp4_path].w
          /\ height' = meta[temp_mp4_path].h
          /\ log' = Append(log, Event("probe", "probe", temp_mp4_path, TRUE, FALSE, NoAttrs))
          /\ pc' = "mp4_evaluate"
       \/ /\ UNCHANGED Probed
          /\ log' = Append(Append(log,
                        Event("probe", "probe", temp_mp4_path, FALSE, FALSE, NoAttrs)),
                        Text("probe_warn"))
          /\ pc' = "probe_reply_video"
    /\ sizeChecked' = "None"
    /\ UNCHANGED <<Env, files, meta, Mp3Locals, temp_mp4_path, attempt, outcome>>

\* a variant of ProbeReplyVideo: the `return` after the send left out
ProbeReplyVideoNoReturn ==
    /\ pc = "probe_reply_video"
    /\ \E ok \in BOOLEAN :
        /\ log' = Append(log, Send("video", temp_mp4_path, ok))
        /\ outcome' = IF ok THEN outcome ELSE "raised"
        /\ pc' = IF ok THEN "t2_reply_text" ELSE "mp4_finally"
    /\ sizeChecked' = "None"
    /\ UNCHANGED <<Env, files, meta, Mp3Locals, temp_mp4_path, Probed, attempt>>

\* with open(temp_mp4_path, 'rb') as video_file: await reply_video(video_file); return
ProbeReplyVideo ==
    /\ pc = "probe_reply_video"
    /\ \E ok \in BOOLEAN :
        /\ log' = Append(log, Send("video", temp_mp4_path, ok))
        /\ outcome' = IF ok THEN "returned" ELSE "raised"
    /\ pc' = "mp4_finally"
    /\ sizeChecked' = "None"
    /\ UNCHANGED <<Env, files, meta, Mp3Locals, temp_mp4_path, Probed, attempt>>

\* trim_needed, is_square and the size of the original decide: direct send, or the ladder
Mp4Evaluate ==
    /\ pc = "mp4_evaluate"
    /\ IF DirectlyAcceptable(duration, width, height, meta[temp_mp4_path].size)
       THEN pc' = "direct_reply_video_note" /\ sizeChecked' = temp_mp4_path
       ELSE pc' = "t2_reply_text" /\ sizeChecked' = "None"
    /\ UNCHANGED <<Env, files, meta, Mp3Locals, temp_mp4_path, Probed, attempt, outcome, log>>

\* await reply_video_note(video_file) of the original; return
DirectReplyVideoNote ==
    /\ pc = "direct_reply_video_note"
    /\ \E ok \in BOOLEAN :
        /\ log' = Append(log, Send("video_note", temp_mp4_path, ok))
        /\ outcome' = IF ok THEN "returned" ELSE "raised"
    /\ pc' = "mp4_finally"
    /\ sizeChecked' = "None"
    /\ UNCHANGED <<Env, files, meta, Mp3Locals, temp_mp4_path, Probed, attempt>>

\* tier 2 opens with the advisory text
T2ReplyText ==
    /\ pc = "t2_reply_text"
    /\ log' = Append(log, Text("pad_notice"))
    /\ pc' = "t2_moviepy"
    /\ sizeChecked' = "None"
    /\ UNCHANGED <<Env, files, meta, Mp3Locals, temp_mp4_path, Probed, attempt, outcome>>

\* tier 2: moviepy trim, resize, composite, write_videofile to tmp_out.  An exception
\* before tmp_out is created, an exception after it, or an output of some size.
T2Moviepy ==
    /\ pc = "t2_moviepy"
    /\ LET src == meta[temp_mp4_path]
           dims == Tier2Dims(src.w, src.h)
       IN  \/ /\ log' = Append(log, Transform("t2", FALSE))
              /\ UNCHANGED <<files, meta>>
              /\ pc' = "t3_temp"
           \/ /\ log' = Append(log, Transform("t2", FALSE))
              /\ files' = files \cup {"tmp_out"}
              /\ UNCHANGED meta
              /\ pc' = "t3_temp"
           \/ \E sz \in OutSizes :
              /\ log' = Append(log, Transform("t2", TRUE))
              /\ files' = files \cup {"tmp_out"}
              /\ meta' = [meta EXCEPT !["tmp_out"] =
                            [size |-> sz, dur |-> Tier2Duration(src.dur),
                             w |-> dims[1], h |-> dims[2]]]
              /\ pc' = "t2_check"
    /\ sizeChecked' = "None"
    /\ UNCHANGED <<Env, Mp3Locals, temp_mp4_path, Probed, attempt, outcome>>

\* if os.path.getsize(tmp_out_path) <= 20 * 1024 * 1024 ... else: tmp_out is kept
T2Check ==
    /\ pc = "t2_check"
    /\ IF SizeOk(meta["tmp_out"].size)
       THEN pc' = "t2_reply_video_note" /\ sizeChecked' = "tmp_out"
       ELSE pc' = "t3_temp" /\ sizeChecked' = "None"
    /\ UNCHANGED <<Env, files, meta, Mp3Locals, temp_mp4_path, Probed, attempt, outcome, log>>

\* a variant of T2ReplyVideoNote: the `return` after the send left out
T2ReplyVideoNoteNoReturn ==
    /\ pc = "t2_reply_video_note"
    /\ \E ok \in BOOLEAN :
        /\ log' = Append(log, Send("video_note", "tmp_out", ok))
        /\ files' = IF ok THEN files \ {"tmp_out"} ELSE files
    /\ pc' = "t3_temp"
    /\ sizeChecked' = "None"
    /\ UNCHANGED <<Env, meta, Mp3Locals, temp_mp4_path, Probed, attempt, outcome>>

\* await reply_video_note(vf); unlink tmp_out; return.  An exception of the send is
\* caught by tier 2's `except Exception` and the code goes on to tier 3.
T2ReplyVideoNote ==
    /\ pc = "t2_reply_video_note"
    /\ \/ /\ log' = Append(log, Send("video_note", "tmp_out", TRUE))
          /\ files' = files \ {"tmp_out"}
          /\ outcome' = "returned"
          /\ pc' = "mp4_finally"
       \/ /\ log' = Append(log, Send("video_note", "tmp_out", FALSE))
          /\ UNCHANGED <<files, outcome>>
          /\ pc' = "t3_temp"
    /\ sizeChecked' = "None"
    /\ UNCHANGED <<Env, meta, Mp3Locals, temp_mp4_path, Probed, attempt>>

\* a variant of T3Temp: the which('ffmpeg') test left out
T3TempNoWhich ==
    /\ pc = "t3_temp"
    /\ files' = files \cup {"temp_ff"}
    /\ pc' = "t3_ffmpeg"
    /\ sizeChecked' = "None"
    /\ UNCHANGED <<Env, meta, Mp3Locals, temp_mp4_path, Probed, attempt, outcome, log>>

\* with NamedTemporaryFile(suffix='.mp4', delete=False) as temp_ff; then which('ffmpeg'):
\* FileNotFoundError when it is missing
T3Temp ==
    /\ pc = "t3_temp"
    /\ files' = files \cup {"temp_ff"}
    /\ pc' = IF ffmpegInPath THEN "t3_ffmpeg" ELSE "missing_reply_text"
    /\ sizeChecked' = "None"
    /\ UNCHANGED <<Env, meta, Mp3Locals, temp_mp4_path, Probed, attempt, outcome, log>>

\* tier 3: subprocess.run(ffmpeg_cmd); a nonzero return code raises RuntimeError, and
\* that or an exception of the call itself is caught by `except Exception`
T3Ffmpeg ==
    /\ pc = "t3_ffmpeg"
    /\ LET src == meta[temp_mp4_path]
           dims == Tier3Dims(src.w, src.h)
       IN  \/ /\ log' = Append(log, Transform("t3", FALSE))
              /\ UNCHANGED meta
              /\ pc' = "failed_reply_text"
           \/ \E sz \in OutSizes :
              /\ log' = Append(log, Transform("t3", TRUE))
              /\ meta' = [meta EXCEPT !["temp_ff"] =
                            [size |-> sz, dur |-> FfmpegDuration(src.dur),
                             w |-> dims[1], h |-> dims[2]]]
              /\ pc' = "t3_check"
    /\ sizeChecked' = "None"
    /\ UNCHANGED <<Env, files, Mp3Locals, temp_mp4_path, Probed, attempt, outcome>>

\* if os.path.getsize(temp_ff_path) <= 20 * 1024 * 1024; otherwise on to the attempts
T3Check ==
    /\ pc = "t3_check"
    /\ IF SizeOk(meta["temp_ff"].size)
       THEN pc' = "t3_reply_video_note" /\ sizeChecked' = "temp_ff" /\ attempt' = attempt
       ELSE pc' = "t4_temp" /\ sizeChecked' = "None" /\ attempt' = 1
    /\ UNCHANGED <<Env, files, meta, Mp3Locals, temp_mp4_path, Probed, outcome, log>>

\* await reply_video_note(vf); unlink temp_ff; return
T3ReplyVideoNote ==
    /\ pc = "t3_reply_video_note"
    /\ \/ /\ log' = Append(log, Send("video_note", "temp_ff", TRUE))
          /\ files' = files \ {"temp_ff"}
          /\ outcome' = "returned"
          /\ pc' = "mp4_finally"
       \/ /\ log' = Append(log, Send("video_note", "temp_ff", FALSE))
          /\ UNCHANGED <<files, outcome>>
          /\ pc' = "failed_reply_text"
    /\ sizeChecked' = "None"
    /\ UNCHANGED <<Env, meta, Mp3Locals, temp_mp4_path, Probed, attempt>>

\* for a in attempts: with NamedTemporaryFile(...) as tmp_try
T4Temp ==
    /\ pc = "t4_temp"
    /\ files' = files \cup {TryFile(attempt)}
    /\ pc' = "t4_ffmpeg"
    /\ sizeChecked' = "None"
    /\ UNCHANGED <<Env, meta, Mp3Locals, temp_mp4_path, Probed, attempt, outcome, log>>

\* tier 4: subprocess.run(ff_cmd); a nonzero return code unlinks tmp_try and continues,
\* an exception of the call itself is caught by `except Exception`
T4Ffmpeg ==
    /\ pc = "t4_ffmpeg"
    /\ LET src == meta[temp_mp4_path]
           dims == Tier4Dims(src.w, src.h, attempts[attempt].scale)
       IN  \/ /\ log' = Append(log, Transform(TryTier(attempt), FALSE))
              /\ files' = files \ {TryFile(attempt)}
              /\ UNCHANGED meta
              /\ pc' = AfterAttempt(attempt)
              /\ attempt' = attempt + 1
           \/ /\ log' = Append(log, Transform(TryTier(attempt), FALSE))
              /\ UNCHANGED <<files, meta, attempt>>
              /\ pc' = "failed_reply_text"
           \/ \E sz \in OutSizes :
              /\ log' = Append(log, Transform(TryTier(attempt), TRUE))
              /\ meta' = [meta EXCEPT ![TryFile(attempt)] =
                            [size |-> sz, dur |-> FfmpegDuration(src.dur),
                             w |-> dims[1], h |-> dims[2]]]
              /\ UNCHANGED <<files, attempt>>
              /\ pc' = "t4_check"
    /\ sizeChecked' = "None"
    /\ UNCHANGED <<Env, Mp3Locals, temp_mp4_path, Probed, outcome>>

\* if os.path.getsize(tmp_try_path) <= 20 * 1024 * 1024 ... else: unlink tmp_try
T4Check ==
    /\ pc = "t4_check"
    /\ IF SizeOk(meta[TryFile(attempt)].size)
       THEN /\ pc' = "t4_reply_video_note"
            /\ sizeChecked' = TryFile(attempt)
            /\ UNCHANGED <<files, attempt>>
       ELSE /\ pc' = AfterAttempt(attempt)
            /\ sizeChecked' = "None"
            /\ files' = files \ {TryFile(attempt)}
            /\ attempt' = attempt + 1
    /\ UNCHANGED <<Env, meta, Mp3Locals, temp_mp4_path, Probed, outcome, log>>

\* await reply_video_note(vf2); unlink tmp_try; return
T4ReplyVideoNote ==
    /\ pc = "t4_reply_video_note"
    /\ \/ /\ log' = Append(log, Send("video_note", TryFile(attempt), TRUE))
          /\ files' = files \ {TryFile(attempt)}
          /\ outcome' = "returned"
          /\ pc' = "mp4_finally"
       \/ /\ log' = Append(log, Send("video_note", TryFile(attempt), FALSE))
          /\ UNCHANGED <<files, outcome>>
          /\ pc' = "failed_reply_text"
    /\ sizeChecked' = "None"
    /\ UNCHANGED <<Env, meta, Mp3Locals, temp_mp4_path, Probed, attempt>>

\* All attempts failed: reply_text('Could not produce a small enough video note...')
ExhaustedReplyText ==
    /\ pc = "exhausted_reply_text"
    /\ log' = Append(log, Text("exhausted_warn"))
    /\ pc' = "exhausted_reply_video"
    /\ sizeChecked' = "None"
    /\ UNCHANGED <<Env, files, meta, Mp3Locals, temp_mp4_path, Probed, attempt, outcome>>

\* a variant of ExhaustedAsset: the tier-3 output, the intermediate kept on disk
ExhaustedAssetIntermediate == "temp_ff"

\* the file the exhausted ladder sends as a regular video
ExhaustedAsset == temp_mp4_path

\* await reply_video(video_file); an exception is caught by `except Exception`
ExhaustedReplyVideo ==
    /\ pc = "exhausted_reply_video"
    /\ \/ /\ log' = Append(log, Send("video", ExhaustedAsset, TRUE))
          /\ outcome' = "returned"
          /\ pc' = "mp4_finally"
       \/ /\ log' = Append(log, Send("video", ExhaustedAsset, FALSE))
          /\ UNCHANGED outcome
          /\ pc' = "failed_reply_text"
    /\ sizeChecked' = "None"
    /\ UNCHANGED <<Env, files, meta, Mp3Locals, temp_mp4_path, Probed, attempt>>

\* except FileNotFoundError: reply_text('ffmpeg not found on server; ...')
MissingReplyText ==
    /\ pc = "missing_reply_text"
    /\ log' = Append(log, Text("ffmpeg_missing"))
    /\ pc' = "missing_reply_video"
    /\ sizeChecked' = "None"
    /\ UNCHANGED <<Env, files, meta, Mp3Locals, temp_mp4_path, Probed, attempt, outcome>>

\* await reply_video(video_file) in the FileNotFoundError handler
MissingReplyVideo ==
    /\ pc = "missing_reply_video"
    /\ \E ok \in BOOLEAN :
        /\ log' = Append(log, Send("video", temp_mp4_path, ok))
        /\ outcome' = IF ok THEN "returned" ELSE "raised"
    /\ pc' = "mp4_finally"
    /\ sizeChecked' = "None"
    /\ UNCHANGED <<Env, files, meta, Mp3Locals, temp_mp4_path, Probed, attempt>>

\* except Exception: reply_text('Error converting video; sending original file.')
FailedReplyText ==
    /\ pc = "failed_reply_text"
    /\ log' = Append(log, Text("encode_error"))
    /\ pc' = "failed_reply_video"
    /\ sizeChecked' = "None"
    /\ UNCHANGED <<Env, files, meta, Mp3Locals, temp_mp4_path, Probed, attempt, outcome>>

\* await reply_video(video_file) in the `except Exception` handler
FailedReplyVideo ==
    /\ pc = "failed_reply_video"
    /\ \E ok \in BOOLEAN :
        /\ log' = Append(log, Send("video", temp_mp4_path, ok))
        /\ outcome' = IF ok THEN "returned" ELSE "raised"
    /\ pc' = "mp4_finally"
    /\ sizeChecked' = "None"
    /\ UNCHANGED <<Env, files, meta, Mp3Locals, temp_mp4_path, Probed, attempt>>

\* finally: if temp_mp4_path and os.path.exists(temp_mp4_path): os.unlink(temp_mp4_path)
Mp4Finally ==
    /\ pc = "mp4_finally"
    /\ files' = files \ (IF temp_mp4_path # "None" THEN {temp_mp4_path} ELSE {})
    /\ pc' = "done"
    /\ sizeChecked' = "None"
    /\ UNCHANGED <<Env, meta, Mp3Locals, temp_mp4_path, Probed, attempt, outcome, log>>

----------------------------------------------------------------------------
Next ==
    \/ HandleDocument
    \/ Mp3GetFile
    \/ Mp3Download
    \/ Mp3TempOgg
    \/ Mp3Transcode
    \/ Mp3ReplyVoice
    \/ Mp3Except
    \/ Mp3Finally
    \/ Mp4GetFile
    \/ Mp4Download
    \/ Mp4Probe
    \/ ProbeReplyVideo
    \/ Mp4Evaluate
    \/ DirectReplyVideoNote
    \/ T2ReplyText
    \/ T2Moviepy
    \/ T2Check
    \/ T2ReplyVideoNote
    \/ T3Temp
    \/ T3Ffmpeg
    \/ T3Check
    \/ T3ReplyVideoNote
    \/ T4Temp
    \/ T4Ffmpeg
    \/ T4Check
    \/ T4ReplyVideoNote
    \/ ExhaustedReplyText
    \/ ExhaustedReplyVideo
    \/ MissingReplyText
    \/ MissingReplyVideo
    \/ FailedReplyText
    \/ FailedReplyVideo
    \/ Mp4Finally

Spec == Init /\ [][Next]_vars

----------------------------------------------------------------------------
(* Two requests.  The handlers are coroutines of one event loop: a           *)
(* coroutine gives up the loop only inside an `await`, and the loop then    *)
(* runs another coroutine until that one awaits or ends.  A call without    *)
(* `await` (VideoFileClip, write_videofile, write_audiofile,                *)
(* subprocess.run, NamedTemporaryFile, os.unlink) keeps the loop.           *)
(* The variables of the handler hold the locals of the coroutine that has   *)
(* the loop, parked those of the other one; files is the one temporary      *)
(* directory both write to.                                                 *)

\* the positions inside an `await` (get_file, download_to_drive, reply_text, reply_voice,
\* reply_video, reply_video_note), before the handler's first statement, and after its end
AwaitPoints ==
    { "handle_document", "done",
      "mp3_get_file", "mp3_download", "mp3_reply_voice", "mp3_except",
      "mp4_get_file", "mp4_download", "probe_reply_video", "direct_reply_video_note",
      "t2_reply_text", "t2_reply_video_note", "t3_reply_video_note", "t4_reply_video_note",
      "exhausted_reply_text", "exhausted_reply_video", "missing_reply_text",
      "missing_reply_video", "failed_reply_text", "failed_reply_video" }

\* a variant of Theirs: NamedTemporaryFile gives every request the same names
TheirsSameName(f) == f

\* NamedTemporaryFile gives every call a name no existing file has: the file one request
\* knows as f is, in the directory as the other request sees it, a file of another name
Theirs(f) ==
    CASE f = "temp_mp3" -> "their_temp_mp3"
      [] f = "temp_ogg" -> "their_temp_ogg"
      [] f = "temp_mp4" -> "their_temp_mp4"
      [] f = "tmp_out" -> "their_tmp_out"
      [] f = "temp_ff" -> "their_temp_ff"
      [] f = "tmp_try1" -> "their_tmp_try1"
      [] f = "tmp_try2" -> "their_tmp_try2"
      [] OTHER -> "their_tmp_try3"

\* the directory as the other request sees it
Swapped(f) == IF f \in TempFiles THEN Theirs(f) ELSE CHOOSE g \in TempFiles : Theirs(g) = f

\* the event loop suspends the coroutine that has it, inside an await or at its end, and
\* resumes (or starts) the other one
Switch ==
    /\ pc \in AwaitPoints
    /\ parked.pc \notin {"absent", "done"}
    /\ parked' = Context(pc, hasMessage, hasDocument, file_name, mime_type, meta,
                         temp_mp3_path, temp_ogg_path, temp_mp4_path, duration, width,
                         height, attempt, sizeChecked, outcome, log, req,
                         files \cap TempFiles)
    /\ pc' = parked.pc
    /\ hasMessage' = parked.hasMessage
    /\ hasDocument' = parked.hasDocument
    /\ file_name' = parked.file_name
    /\ mime_type' = parked.mime_type
    /\ meta' = parked.meta
    /\ temp_mp3_path' = parked.temp_mp3_path
    /\ temp_ogg_path' = parked.temp_ogg_path
    /\ temp_mp4_path' = parked.temp_mp4_path
    /\ duration' = parked.duration
    /\ width' = parked.width
    /\ height' = parked.height
    /\ attempt' = parked.attempt
    /\ sizeChecked' = parked.sizeChecked
    /\ outcome' = parked.outcome
    /\ log' = parked.log
    /\ req' = parked.req
    /\ files' = { Swapped(f) : f \in files }
    /\ UNCHANGED ffmpegInPath

\* request 1 is an audio named a.mp3 or a video named a.mp4; request 2 is any of: no
\* attachment, a.txt, an audio named a.mp3, a video named a.mp4
InitTwo ==
    /\ req = 1
    /\ pc = "handle_document"
    /\ hasMessage = TRUE
    /\ hasDocument = TRUE
    /\ \E doc \in { << << "a" >> \o Mp3Suffix, AudioMpeg >>,
                     << << "a" >> \o Mp4Suffix, VideoMp4 >> } :
          file_name = doc[1] /\ mime_type = doc[2]
    /\ ffmpegInPath \in BOOLEAN
    /\ files = {}
    /\ meta = [f \in TempFiles |-> NoAttrs]
    /\ temp_mp3_path = "None"
    /\ temp_ogg_path = "None"
    /\ temp_mp4_path = "None"
    /\ duration = 0
    /\ width = 0
    /\ height = 0
    /\ attempt = 0
    /\ sizeChecked = "None"
    /\ outcome = "running"
    /\ log = << >>
    /\ parked \in { Arrived(2, TRUE, FALSE, NoneVal, NoneVal),
                    Arrived(2, TRUE, TRUE, << "a", ".", "t", "x", "t" >>, << "t", "e", "x", "t" >>),
                    Arrived(2, TRUE, TRUE, << "a" >> \o Mp3Suffix, AudioMpeg),
                    Arrived(2, TRUE, TRUE, << "a" >> \o Mp4Suffix, VideoMp4) }

NextTwo ==
    \/ Next
    \/ Switch

SpecTwo == InitTwo /\ [][NextTwo]_vars

----------------------------------------------------------------------------
(* Properties *)

Done == pc = "done"
VideoNotes == { i \in SendIdx : log[i].kind = "video_note" }
RegularVideos == { i \in SendIdx : log[i].kind = "video" }
Tier4Kinds == { "t4_1", "t4_2", "t4_3" }
Attempted(kind, before) ==
    \E k \in TransformIdx : k < before /\ log[k].kind = kind
Succeeded(before) ==
    \E k \in TransformIdx : k < before /\ log[k].ok
HasText(kind) == \E i \in TextIdx : log[i].kind = kind
\* the send at j follows the text `kind` directly
FollowsText(j, kind) == j > 1 /\ log[j - 1] = Text(kind)
\* the entry at j is a send of the original file, with the attributes it was downloaded with
SendsOriginal(j) ==
    /\ log[j].asset = "temp_mp4"
    /\ log[j].size = meta["temp_mp4"].size
    /\ log[j].dur = meta["temp_mp4"].dur
    /\ log[j].w = meta["temp_mp4"].w
    /\ log[j].h = meta["temp_mp4"].h

\* C1: once handling has ended, no temporary file created by the request still exists.
C1_CleanupInvariant == Done => files = {}

\* C2: when the tier-3 ffmpeg invocation fails, the tier-4 pairs are still attempted, and
\* a regular video is sent only after every one of them has been attempted.
C2_Tier3FailureEscalates ==
    \A j \in RegularVideos :
        (\E i \in TransformIdx : i < j /\ log[i] = Transform("t3", FALSE))
            => \A t \in Tier4Kinds : Attempted(t, j)

\* C3: after a failed send of a video-note, no transform is invoked and no media send is
\* attempted for the request.
C3_SendFailureTerminal ==
    \A i \in VideoNotes :
        ~log[i].ok => \A j \in (i + 1)..Len(log) : log[j].ev \notin {"transform", "send"}

\* C4 as first stated: every video-note and every regular video sent has had its size
\* checked against the cap by the step just before the send, and passed.
C4_EverySendSizeChecked ==
    \A i \in VideoNotes \cup RegularVideos :
        log[i].checked /\ log[i].size <= SizeCap

\* C4, amended: every video-note sent has had its size checked against the cap by the step
\* just before the send, and is within the cap; a regular video is sent with no size check.
C4_VideoNoteSizeChecked ==
    /\ \A i \in VideoNotes : log[i].checked /\ log[i].size <= SizeCap
    /\ \A i \in RegularVideos : ~log[i].checked

\* a video-note of exactly the cap was sent, and a regular video over the cap
C4_Witness ==
    /\ \E i \in VideoNotes : log[i].size = SizeCap /\ log[i].asset = "temp_ff"
    /\ \E j \in RegularVideos : log[j].size > SizeCap

\* the request ended in a failure: an exception left the handler, or process_mp3 sent
\* its error text
TerminalFailure == outcome = "raised" \/ HasText("mp3_error")

\* C5: a request delivers at most one media payload, and a request dispatched to the
\* audio or the video path that does not end in a terminal failure delivers exactly one.
C5_OnePayloadPerRequest ==
    /\ Cardinality(Delivered) <= 1
    /\ (Done /\ FetchIdx # {} /\ ~TerminalFailure) => Cardinality(Delivered) = 1

\* a request whose first send failed and whose later send delivered
C5_Witness ==
    /\ Done
    /\ Cardinality(SendIdx) >= 2
    /\ Cardinality(Delivered) = 1
    /\ ~TerminalFailure

\* C6 as first stated: the regular video the exhausted ladder sends is an intermediate
\* output when a tier produced one, and the original only when none did.
C6_ExhaustedSendsBestIntermediate ==
    \A j \in RegularVideos :
        FollowsText(j, "exhausted_warn") =>
            IF Succeeded(j) THEN log[j].asset # "temp_mp4" ELSE log[j].asset = "temp_mp4"

\* C6, amended: the regular video the exhausted ladder sends is always the original
\* downloaded file, unmodified, although tier 3 has produced an output by then.
C6_ExhaustedSendsOriginal ==
    \A j \in RegularVideos :
        FollowsText(j, "exhausted_warn") => SendsOriginal(j) /\ Succeeded(j)

\* the exhausted ladder delivered a regular video after tier 2 and tier 3 produced outputs
C6_Witness ==
    \E j \in RegularVideos :
        /\ FollowsText(j, "exhausted_warn")
        /\ log[j].ok
        /\ \E k \in TransformIdx : log[k] = Transform("t2", TRUE)
        /\ \E k \in TransformIdx : log[k] = Transform("t3", TRUE)

\* C7: every payload sent as a video-note is within the size cap, at most 60 s long, and
\* near-square: aspect within [0.9, 1.1] for the original, a square frame for a tier's output.
C7_VideoNoteWithinLimits ==
    \A i \in VideoNotes :
        /\ log[i].size <= SizeCap
        /\ log[i].dur <= MaxDuration
        /\ IF log[i].asset = "temp_mp4"
           THEN 9 * log[i].h <= 10 * log[i].w /\ 10 * log[i].w <= 11 * log[i].h
           ELSE log[i].w = log[i].h /\ log[i].w > 0

\* a source longer than 60 s and not square was delivered as a video-note by the last
\* tier-4 attempt
C7_Witness ==
    \E i \in VideoNotes :
        /\ log[i].asset = "tmp_try3"
        /\ log[i].ok
        /\ meta["temp_mp4"].dur > MaxDuration
        /\ meta["temp_mp4"].w # meta["temp_mp4"].h

\* the three limits on the attributes of the downloaded file, all bounds inclusive
WithinLimits ==
    /\ meta["temp_mp4"].dur <= MaxDuration
    /\ 9 * meta["temp_mp4"].h <= 10 * meta["temp_mp4"].w
    /\ 10 * meta["temp_mp4"].w <= 11 * meta["temp_mp4"].h
    /\ meta["temp_mp4"].size <= SizeCap

\* C8: after a successful probe, the original is sent unmodified as a video-note, with no
\* transform and no advisory text, exactly when the three limits hold; otherwise the
\* original is never sent as a video-note and the ladder starts at tier 2.
C8_DirectAcceptance ==
    \A i \in 1..Len(log) :
        (log[i].ev = "probe" /\ log[i].ok) =>
            IF WithinLimits
            THEN /\ TransformIdx = {} /\ TextIdx = {}
                 /\ pc # "mp4_evaluate" => pc \in {"direct_reply_video_note", "mp4_finally", "done"}
                 /\ Len(log) > i =>
                        /\ Len(log) = i + 1
                        /\ log[i + 1].ev = "send" /\ log[i + 1].kind = "video_note"
                        /\ SendsOriginal(i + 1)
            ELSE /\ \A j \in VideoNotes : log[j].asset # "temp_mp4"
                 /\ pc \notin {"direct_reply_video_note"}
                 /\ Len(log) > i => log[i + 1] = Text("pad_notice")
                 /\ Len(log) > i + 1 => log[i + 2].ev = "transform" /\ log[i + 2].kind = "t2"

\* an original at every limit (60 s, aspect 1.1, size at the cap) was delivered directly
C8_Witness ==
    \E i \in VideoNotes :
        /\ log[i].ok
        /\ log[i].asset = "temp_mp4"
        /\ log[i].dur = MaxDuration
        /\ 10 * log[i].w = 11 * log[i].h
        /\ log[i].size = SizeCap

\* C9 as first stated: with the ffmpeg binary absent, the toolchain-missing fallback is
\* taken before any transform tier has run.
C9_MissingToolchainImmediateFallback ==
    (~ffmpegInPath /\ HasText("ffmpeg_missing")) => TransformIdx = {}

\* C9, amended: with the ffmpeg binary absent, a request that is not accepted directly
\* first runs tier 2; no tier-3 or tier-4 transform is invoked; unless tier 2 delivers a
\* video-note, the handler sends the toolchain-missing text, never the encode-failure text,
\* and then the original unmodified as a regular video.  With the binary present the
\* toolchain-missing text is never sent.
C9_MissingToolchainFallback ==
    /\ ffmpegInPath => ~HasText("ffmpeg_missing")
    /\ ~ffmpegInPath =>
        /\ \A k \in TransformIdx : log[k].kind \in {"t2", "ogg"}
        /\ ~HasText("encode_error") /\ ~HasText("exhausted_warn")
        /\ \A i \in TextIdx : log[i].kind = "ffmpeg_missing" => Attempted("t2", i)
        /\ \A j \in RegularVideos :
              Attempted("t2", j) => FollowsText(j, "ffmpeg_missing") /\ SendsOriginal(j)
        /\ (Done /\ Attempted("t2", Len(log) + 1) /\ ~\E i \in VideoNotes : log[i].ok)
              => /\ Len(log) >= 2
                 /\ log[Len(log)].ev = "send" /\ log[Len(log)].kind = "video"
                 /\ FollowsText(Len(log), "ffmpeg_missing")

\* with the binary absent, tier 2 ran and the original was then delivered as a regular video
C9_Witness ==
    /\ ~ffmpegInPath
    /\ Done
    /\ \E k \in TransformIdx : log[k].kind = "t2"
    /\ \E j \in RegularVideos : log[j].ok /\ FollowsText(j, "ffmpeg_missing")

\* C10: when get_file or the download fails, the user receives an error text, no transform
\* is invoked, no media payload is sent, the download is not retried and no temporary
\* file remains.
C10_DownloadFailureSurfaced ==
    (Done /\ \E i \in FetchIdx : ~log[i].ok) =>
        /\ TextIdx # {}
        /\ TransformIdx = {}
        /\ SendIdx = {}
        /\ Cardinality({ i \in FetchIdx : log[i].kind = "get_file" }) = 1
        /\ Cardinality({ i \in FetchIdx : log[i].kind = "download" }) <= 1
        /\ files = {}

\* the dispatch the rule "extension first, mime type only after that" gives
ExtensionFirst(name, mime) ==
    LET n == Lower(OrEmpty(name))
        mt == OrEmpty(mime)
    IN  IF EndsWith(n, Mp4Suffix) THEN "mp4"
        ELSE IF EndsWith(n, Mp3Suffix) THEN "mp3"
        ELSE IF Contains(AudioMpeg, mt) THEN "mp3"
        ELSE IF Contains(VideoMp4, mt) THEN "mp4"
        ELSE "reject"

\* C11: a name ending in .mp4 is dispatched to the video path and a name ending in .mp3 to
\* the audio path whatever the mime type is; the mime type selects the path only when the
\* name has neither extension; a pair matching none of the four tests is rejected.
C11_ExtensionDecidesFirst ==
    /\ pc = "mp3_get_file" => ExtensionFirst(file_name, mime_type) = "mp3"
    /\ pc = "mp4_get_file" => ExtensionFirst(file_name, mime_type) = "mp4"
    /\ HasText("unsupported") => ExtensionFirst(file_name, mime_type) = "reject"

\* the tiers of the ladder in their order, and the file each writes
LadderKinds == << "t2", "t3", "t4_1", "t4_2", "t4_3" >>
Rank(kind) == CHOOSE r \in 1..Len(LadderKinds) : LadderKinds[r] = kind
OutputOf(kind) ==
    CASE kind = "t2" -> "tmp_out"
      [] kind = "t3" -> "temp_ff"
      [] kind = "t4_1" -> "tmp_try1"
      [] kind = "t4_2" -> "tmp_try2"
      [] OTHER -> "tmp_try3"
LadderIdx == { i \in TransformIdx : log[i].kind # "ogg" }

\* C12: the transforms of one video request are invoked in the order tier 2, tier 3,
\* tier-4 pairs 1, 2, 3, each at most once, at most five in all, and none is invoked
\* after an attempt whose output is within the cap.
C12_LadderOrderedAndStops ==
    /\ \A i, j \in LadderIdx : i < j => Rank(log[i].kind) < Rank(log[j].kind)
    /\ Cardinality(LadderIdx) <= 5
    /\ \A i \in LadderIdx :
          (log[i].ok /\ meta[OutputOf(log[i].kind)].size <= SizeCap)
              => \A j \in LadderIdx : j <= i

\* neither the name nor the mime type passes any of the four tests
Unsupported ==
    LET n == Lower(OrEmpty(file_name))
        mt == OrEmpty(mime_type)
    IN  /\ ~EndsWith(n, Mp3Suffix) /\ ~EndsWith(n, Mp4Suffix)
        /\ ~Contains(AudioMpeg, mt) /\ ~Contains(VideoMp4, mt)

\* C13: for an attachment that passes none of the four tests, handle_document sends the
\* rejection text once and nothing else: no temporary file, no download, no transform,
\* no media payload.
C13_UnsupportedRejected ==
    (hasDocument /\ Unsupported) =>
        /\ pc \in {"handle_document", "done"}
        /\ files = {}
        /\ log = IF Done THEN << Text("unsupported") >> ELSE << >>

\* a .txt attachment with a mime type that is neither audio/mpeg nor video/mp4 was rejected
C13_Witness ==
    /\ Done
    /\ file_name = << "a", ".", "t", "x", "t" >>
    /\ mime_type = << "t", "e", "x", "t" >>
    /\ log = << Text("unsupported") >>

OggIdx == { i \in TransformIdx : log[i].kind = "ogg" }

\* C14: the audio path transcodes at most once; when the transcode failed, the error text
\* was sent, no voice payload was sent and both temporary files are removed at the end;
\* when it succeeded, one voice payload, the .ogg output, was sent and both files are
\* removed at the end.
C14_AudioPath ==
    /\ Cardinality(OggIdx) <= 1
    /\ \A i \in OggIdx :
          IF log[i].ok
          THEN Done => /\ Cardinality(SendIdx) = 1
                       /\ \A j \in SendIdx : log[j].kind = "voice" /\ log[j].asset = "temp_ogg"
                       /\ files = {}
          ELSE /\ SendIdx = {}
               /\ Done => HasText("mp3_error") /\ files = {}

\* the one transcode failed, the error text was sent and nothing is left on disk
C14_Witness ==
    /\ Done
    /\ \E i \in OggIdx : ~log[i].ok
    /\ HasText("mp3_error")
    /\ files = {}
    /\ temp_mp3_path # "None" /\ temp_ogg_path # "None"

\* the (quality factor, scale target) a tier of ffmpeg runs with
SettingsOf(kind) ==
    CASE kind = "t3" -> [crf |-> Tier3Crf, scale |-> Tier3Scale]
      [] kind = "t4_1" -> attempts[1]
      [] kind = "t4_2" -> attempts[2]
      [] OTHER -> attempts[3]
FfmpegIdx == { i \in TransformIdx : log[i].kind \in {"t3"} \cup Tier4Kinds }
RecompressionList == << [crf |-> Tier3Crf, scale |-> Tier3Scale] >> \o attempts

\* C15: each setting of the list tier 3, tier-4 pairs has a strictly larger quality factor
\* and a strictly smaller scale target than the one before it, and so has each ffmpeg
\* invocation of a request compared with the invocations before it.
C15_StrictlyMoreAggressive ==
    /\ \A k \in 1..(Len(RecompressionList) - 1) :
          /\ RecompressionList[k + 1].crf > RecompressionList[k].crf
          /\ RecompressionList[k + 1].scale < RecompressionList[k].scale
    /\ \A i, j \in FfmpegIdx :
          i < j => /\ SettingsOf(log[j].kind).crf > SettingsOf(log[i].kind).crf
                   /\ SettingsOf(log[j].kind).scale < SettingsOf(log[i].kind).scale

\* a request ran tier 3 and all three tier-4 pairs
C15_Witness == Cardinality(FfmpegIdx) = 4

\* the files of the suspended request, under the names the running request sees them by
Suspended == { Theirs(f) : f \in parked.own }

\* the files the step the running request is in opens, stats or sends
Opened ==
    CASE pc = "mp3_transcode" -> {"temp_mp3", "temp_ogg"}
      [] pc = "mp3_reply_voice" -> {"temp_ogg"}
      [] pc \in {"mp4_probe", "probe_reply_video", "mp4_evaluate", "direct_reply_video_note",
                 "t2_moviepy", "exhausted_reply_video", "missing_reply_video",
                 "failed_reply_video"} -> {"temp_mp4"}
      [] pc \in {"t2_check", "t2_reply_video_note"} -> {"tmp_out"}
      [] pc = "t3_ffmpeg" -> {"temp_mp4", "temp_ff"}
      [] pc \in {"t3_check", "t3_reply_video_note"} -> {"temp_ff"}
      [] pc = "t4_ffmpeg" -> {"temp_mp4", TryFile(attempt)}
      [] pc \in {"t4_check", "t4_reply_video_note"} -> {TryFile(attempt)}
      [] OTHER -> {}

ToolchainCalls == { "mp3_transcode", "t2_moviepy", "t3_ffmpeg", "t4_ffmpeg" }

\* C17: while a request is inside a toolchain invocation and another request has been
\* delivered, the event loop can start that request's handler.
C17_IntakeNotStarved ==
    (pc \in ToolchainCalls /\ parked.pc = "handle_document") => ENABLED Switch


\* the positions at which the handler reads or sends the original file
ReadsOriginal ==
    pc \in { "mp4_probe", "probe_reply_video", "mp4_evaluate", "direct_reply_video_note",
             "t2_moviepy", "t3_ffmpeg", "t4_ffmpeg", "exhausted_reply_video",
             "missing_reply_video", "failed_reply_video" }

\* the video path reached download_to_drive, so NamedTemporaryFile has created the file
OriginalCreated ==
    /\ Classify(file_name, mime_type) = "mp4"
    /\ \E i \in FetchIdx : log[i].kind = "download"

\* C18: the original file exists at every step that reads or sends it, it is removed only
\* by the final cleanup, and once created it is removed whichever way the handler ends.
C18_OriginalReleasedOnce ==
    /\ ReadsOriginal => temp_mp4_path = "temp_mp4" /\ "temp_mp4" \in files
    /\ (temp_mp4_path # "None" /\ pc # "done") => "temp_mp4" \in files
    /\ (Done /\ OriginalCreated) => "temp_mp4" \notin files

ProbeFailed == \E i \in 1..Len(log) : log[i].ev = "probe" /\ ~log[i].ok

\* C19: after a failed probe the handler sends the one warning text and then the original
\* as a regular video, invokes no transform, creates no further temporary file, sends no
\* video-note, and removes the downloaded original.
C19_ProbeFailureShortCircuits ==
    ProbeFailed =>
        /\ TransformIdx = {}
        /\ VideoNotes = {}
        /\ files \subseteq {"temp_mp4"}
        /\ \A i \in TextIdx : log[i].kind = "probe_warn"
        /\ Cardinality(TextIdx) = 1
        /\ pc \in {"probe_reply_video", "mp4_finally", "done"}
        /\ pc # "probe_reply_video" =>
              /\ Cardinality(SendIdx) = 1
              /\ \A j \in SendIdx :
                    log[j].kind = "video" /\ SendsOriginal(j) /\ FollowsText(j, "probe_warn")
        /\ Done => files = {}

\* the probe failed, the original was delivered as a regular video and removed
C19_Witness ==
    /\ ProbeFailed
    /\ Done
    /\ \E j \in RegularVideos : log[j].ok
    /\ files = {}

====
